---- MODULE Spec2Model ----
(***************************************************************************)
(* The ledger of flexipay (src/database.py): the users and transactions    *)
(* tables of the PostgreSQL store, the psycopg2 connections the functions  *)
(* open or are handed (conn_ext), the functions that write the ledger:     *)
(* create_user_if_not_exists, update_balance, admin_set_balance,           *)
(* record_transaction and update_transaction_status, and the read          *)
(* accessors get_balance, get_transaction_details and                      *)
(* get_pending_withdrawals.                                                *)
(*                                                                         *)
(* Money is counted in whole cents: the columns are NUMERIC(10, 2) and the *)
(* amounts drawn here are amounts of cents, on which Decimal addition      *)
(* (precision 10) and the column's rounding are exact.  A value the column *)
(* cannot hold is one of the rejected statements (a store fault).          *)
(*                                                                         *)
(* The store is PostgreSQL at READ COMMITTED: a connection sees the        *)
(* committed rows overlaid with its own pending writes; a row lock taken   *)
(* by SELECT ... FOR UPDATE or UPDATE is held until the connection         *)
(* commits, rolls back or closes, or one of its statements fails (which    *)
(* aborts its transaction); a statement that needs a row locked by another *)
(* connection waits (its action is disabled, or, where the statement has   *)
(* already had an effect, the unit stays at a waiting position).           *)
(*                                                                         *)
(* Steps are the calls a function makes to the driver: each execute and    *)
(* each commit is a step of its own and other units run in between.  What  *)
(* follows a commit inside one function touches the connection object only *)
(* and is part of the commit's step.                                       *)
(***************************************************************************)
EXTENDS Integers, FiniteSets, Sequences, TLC

VARIABLES
    users,          \* committed rows of table users: telegram_id -> row
    transactions,   \* committed rows of table transactions: id -> row
    seq,            \* last value handed out by the SERIAL sequence of transactions.id
    now,            \* the last reading of the wall clock by datetime.now()
    conn,           \* per unit of execution: its psycopg2 connection
    scope,          \* per unit of execution: TRUE while its caller holds the connection (conn_ext)
    pc,             \* per unit of execution: position inside the running call
    call,           \* per unit of execution: arguments and locals of the current/last call
    ret,            \* per unit of execution: outcome of the last call
    ncalls,         \* number of calls started so far
    faults,         \* number of store faults injected so far
    got,            \* per unit of execution: the data its last read accessor returned
    DATABASE_URL,   \* config.DATABASE_URL: the connection string, or Absent when config has none
    initial,        \* history: balance of each user in the initial state
    accepted        \* history: sum of the deltas of the own-scope update_balance calls that returned True

vars == <<users, transactions, seq, now, conn, scope, pc, call, ret, ncalls, faults, got,
          DATABASE_URL, initial, accepted>>

----------------------------------------------------------------------------
(* Bounds of the model *)

MaxCalls == 2       \* calls started in one behaviour
MaxAmount == 1      \* largest amount (in cents) passed to a call
MaxTx == 2          \* values the SERIAL sequence may hand out
MaxClock == 1       \* ticks of the wall clock
MaxFaults == 1      \* store faults injected in one behaviour

Procs == {"p1", "p2"}           \* concurrent units of execution
UserIds == {1, 2}               \* telegram ids
TxIds == 1..MaxTx
Deltas == (-MaxAmount)..MaxAmount
Amounts == 0..MaxAmount

----------------------------------------------------------------------------
(* config.py: status strings *)

STATUS_EM_ANALISE == "EM ANÁLISE"
STATUS_EM_ANDAMENTO == "EM ANDAMENTO"
STATUS_CONCLUIDO == "CONCLUÍDO"
STATUS_RECUSADO == "RECUSADO"
STATUS_FALHA_PAGAMENTO == "FALHA NO PAGAMENTO"
STATUS_DEPOSITO_PENDENTE == "AGUARDANDO PAGAMENTO"
STATUS_DEPOSITO_PAGO == "PAGO"
STATUS_AJUSTE_MANUAL == "AJUSTE MANUAL"

\* the statuses on the two paths of the status state machine
PathStatuses == {STATUS_DEPOSITO_PENDENTE, STATUS_EM_ANALISE, STATUS_CONCLUIDO,
                 STATUS_RECUSADO, STATUS_DEPOSITO_PAGO, STATUS_FALHA_PAGAMENTO}

\* absent keyword argument / attribute that is not defined
Absent == "<absent>"
None == "None"

\* config.py as it stands defines no DATABASE_URL; a deployment adds one
DatabaseUrls == {Absent, "postgresql://flexipay"}

----------------------------------------------------------------------------
(* psycopg2 connections and the PostgreSQL transaction each one runs *)

EmptyFn == [x \in {} |-> 0]

\* st: "none" (no connection object), "open", "aborted" (a statement failed:
\* every further statement is rejected until rollback), "closed".
\* fu: users rows locked FOR UPDATE; ks: users rows locked FOR KEY SHARE by the foreign-key
\* check of an INSERT into transactions; wusers / wtx: pending (uncommitted) rows.
NoConn == [st |-> "none", fu |-> {}, ks |-> {}, wusers |-> EmptyFn, wtx |-> EmptyFn]
OpenConn == [NoConn EXCEPT !.st = "open"]

\* A world: the committed tables together with one connection acting on them.
World(p) == [c |-> conn[p], users |-> users, transactions |-> transactions, seq |-> seq]

\* rows visible to the connection of world w
VisUsers(w) == w.c.wusers @@ w.users
VisTx(w) == w.c.wtx @@ w.transactions

\* end of the connection's transaction without effect
Cleared(c, st) == [st |-> st, fu |-> {}, ks |-> {}, wusers |-> EmptyFn, wtx |-> EmptyFn]

\* conn.commit(): raises on a closed connection; on an aborted transaction the
\* server rolls back; a failing commit (fault) retains nothing.
conn_commit(w, fault) ==
    IF w.c.st = "closed" THEN [ok |-> FALSE, w |-> w]
    ELSE IF fault THEN [ok |-> FALSE, w |-> [w EXCEPT !.c = Cleared(w.c, "aborted")]]
    ELSE IF w.c.st = "aborted" THEN [ok |-> TRUE, w |-> [w EXCEPT !.c = Cleared(w.c, "open")]]
    ELSE [ok |-> TRUE,
          w |-> [w EXCEPT !.users = VisUsers(w), !.transactions = VisTx(w),
                          !.c = Cleared(w.c, "open")]]

\* conn.rollback(): raises on a closed connection
conn_rollback(w) ==
    IF w.c.st = "closed" THEN [ok |-> FALSE, w |-> w]
    ELSE [ok |-> TRUE, w |-> [w EXCEPT !.c = Cleared(w.c, "open")]]

\* conn.close(): pending writes are discarded, locks released; never raises
conn_close(w) == [w EXCEPT !.c = Cleared(w.c, "closed")]

\* a statement on connection c is rejected outright: closed connection
\* (conn.cursor() raises), aborted transaction, or an injected fault
Rejected(c, fault) == c.st # "open" \/ fault

\* the connection after a statement raised: the server aborts an open transaction at
\* once, releasing its locks and discarding its writes; the session stays in the failed
\* state until it is rolled back
AfterError(c) == IF c.st = "open" THEN Cleared(c, "aborted") ELSE c

----------------------------------------------------------------------------
(* Row locks *)

\* users rows that c holds FOR KEY SHARE (taken by the FK check of its pending inserts)
KeyShared(c) == c.ks

\* SELECT ... FOR UPDATE of users row u by p must wait
SelectBlocked(p, u) ==
    \E q \in Procs \ {p} : u \in conn[q].fu \cup DOMAIN conn[q].wusers \cup KeyShared(conn[q])

\* UPDATE of users row u by p must wait
UpdateBlocked(p, u) ==
    \E q \in Procs \ {p} : u \in conn[q].fu \cup DOMAIN conn[q].wusers

\* INSERT ... ON CONFLICT of users row u by p must wait while another connection has an
\* uncommitted insert or update of the row with that key
InsertBlocked(p, u) == \E q \in Procs \ {p} : u \in DOMAIN conn[q].wusers

\* INSERT of a transaction of user u by p: the FK check waits for a FOR UPDATE lock
FkBlocked(p, u) == \E q \in Procs \ {p} : u \in conn[q].fu

\* UPDATE of transactions row id by p must wait
TxBlocked(p, id) == \E q \in Procs \ {p} : id \in DOMAIN conn[q].wtx

----------------------------------------------------------------------------
(* Rows, calls and inputs *)

NamePairs == {<<"ana", "Ana">>, <<"bob", "Bob">>}

UserRow(names, balance, at) ==
    [username |-> names[1], first_name |-> names[2], balance |-> balance, created_at |-> at]

\* the row record_transaction inserts (lines 135-139): optional columns default to NULL,
\* created_at and updated_at are both the time read at line 134
TxRow(u, type, amount, status, mp_id, admin_notes, at) ==
    [user_telegram_id |-> u, type |-> type, amount |-> amount, status |-> status,
     pix_key |-> None, mercado_pago_id |-> mp_id, admin_notes |-> admin_notes,
     created_at |-> at, updated_at |-> at]

NoCall == [op |-> "none", telegram_id |-> 0, amount |-> 0, conn_ext |-> FALSE,
           current_balance |-> 0, names |-> <<None, None>>, type |-> None, status |-> None,
           mp_id |-> Absent, admin_notes |-> Absent, transaction_id |-> 0, at |-> 0]

\* no call of the unit has returned since it last started one
NoRet == [op |-> "none", val |-> "pending", id |-> 0]

\* no read accessor has returned data to the unit yet
NoGot == [balance |-> 0, rows |-> EmptyFn]

\* datetime.now() (lines 96, 134, 164): the naive local wall-clock time.  A reading may
\* equal the last one, lie after it, or lie before it (the clock is set back, daylight
\* saving time ends): nothing orders two readings.
NowChoices == 0..MaxClock

\* store faults: "execute" (the statement is rejected), "commit" (the commit fails),
\* "connect" (psycopg2.connect raises OperationalError), "outer" (the commit of a calling
\* function fails)
FaultChoices(kinds) == {"none"} \cup (IF faults < MaxFaults THEN kinds ELSE {})
Count(fault) == IF fault = "none" THEN 0 ELSE 1

----------------------------------------------------------------------------
(* Steps shared by all calls *)

\* the connection object a returning function leaves behind: once its transaction has
\* ended (commit, rollback or close) nothing of it matters any more; one left with its
\* transaction in progress keeps its locks and pending writes on the server
Dropped(c) ==
    IF c.fu = {} /\ c.ks = {} /\ DOMAIN c.wusers = {} /\ DOMAIN c.wtx = {} THEN NoConn ELSE c

\* the world w as the next state of unit p; an own-scope connection object is dropped on return
Apply(p, w, keep) ==
    /\ users' = w.users
    /\ transactions' = w.transactions
    /\ seq' = w.seq
    /\ conn' = [conn EXCEPT ![p] = IF keep THEN w.c ELSE Dropped(w.c)]

\* the call of unit p returns val (id: the transaction id record_transaction returns) or
\* is left by an exception (val names it); its arguments and locals are gone
Return(p, val, id) ==
    /\ pc' = [pc EXCEPT ![p] = "idle"]
    /\ ret' = [ret EXCEPT ![p] = [op |-> call[p].op, val |-> val, id |-> id]]
    /\ call' = [call EXCEPT ![p] = NoCall]

\* get_db_connection (lines 18-24): the outcome of the call under the given fault.
\* Reading config.DATABASE_URL raises AttributeError when config does not define it;
\* the OperationalError of a failed connect is logged and raised again.
get_db_connection(fault) ==
    IF DATABASE_URL = Absent THEN "AttributeError"
    ELSE IF fault = "connect" THEN "OperationalError"
    ELSE "conn"

\* Entry of a call: conn = conn_ext or get_db_connection(); an exception of
\* get_db_connection leaves the function.
Enter(p, c, label, fault) ==
    /\ pc[p] = "idle"
    /\ ncalls < MaxCalls
    /\ c.conn_ext = scope[p]
    /\ fault \in {"none", "connect"}
    /\ fault = "connect" => ~scope[p] /\ DATABASE_URL # Absent
    /\ ncalls' = ncalls + 1
    /\ faults' = faults + Count(fault)
    /\ IF ~scope[p] /\ get_db_connection(fault) # "conn"
       THEN /\ ret' = [ret EXCEPT ![p] = [op |-> c.op, val |-> get_db_connection(fault), id |-> 0]]
            /\ UNCHANGED <<pc, conn, call>>
       ELSE /\ ret' = [ret EXCEPT ![p] = NoRet]
            /\ call' = [call EXCEPT ![p] = c]
            /\ pc' = [pc EXCEPT ![p] = label]
            /\ conn' = [conn EXCEPT ![p] = IF scope[p] THEN @ ELSE OpenConn]

----------------------------------------------------------------------------
(* update_balance(telegram_id, amount_change, conn_ext=None), lines 67-93 *)

\* as ForUpdate, had the SELECT of line 71 no locking clause
ForUpdate_Plain == FALSE

\* line 71: the SELECT carries FOR UPDATE, so it locks the row it reads and waits for it
ForUpdate == TRUE

\* line 76: the new balance is refused
Insufficient(new_balance) == new_balance < 0

\* lines 86-93: the except and finally clauses; own: no conn_ext was passed
update_balance_except(w, own) ==
    IF own THEN conn_close(conn_rollback([w EXCEPT !.c = AfterError(@)]).w)
    ELSE [w EXCEPT !.c = AfterError(@)]

\* lines 80-85 (and 91-93): UPDATE, commit of an own connection, return
update_balance_persist(w, own, u, new_balance, fault) ==
    IF Rejected(w.c, fault = "execute")
    THEN [result |-> "False", w |-> update_balance_except(w, own)]
    ELSE LET w1 == IF u \in DOMAIN VisUsers(w)
                   THEN [w EXCEPT !.c.wusers =
                            (u :> [VisUsers(w)[u] EXCEPT !.balance = new_balance]) @@ @]
                   ELSE w
             cm == IF own THEN conn_commit(w1, fault = "commit") ELSE [ok |-> TRUE, w |-> w1]
         IN IF cm.ok
            THEN [result |-> "True", w |-> IF own THEN conn_close(cm.w) ELSE cm.w]
            ELSE [result |-> "False", w |-> update_balance_except(cm.w, own)]

\* as update_balance_decide, had line 76 tested current_balance instead of new_balance
update_balance_decide_TestsCurrent(w, own, u, current_balance, amount_change, fault) ==
    IF Insufficient(current_balance)
    THEN [result |-> "False", w |-> IF own THEN conn_close(w) ELSE w]
    ELSE update_balance_persist(w, own, u, current_balance + amount_change, fault)

\* as update_balance_decide, had the conn.close() of lines 91-93 stood at the end of the
\* try block instead of in a finally clause: the return of line 78 leaves the connection
\* open
update_balance_decide_NoFinally(w, own, u, current_balance, amount_change, fault) ==
    IF Insufficient(current_balance + amount_change)
    THEN [result |-> "False", w |-> w]
    ELSE update_balance_persist(w, own, u, current_balance + amount_change, fault)

\* lines 73-78, 91-93: the balance check; a refused change returns False without writing
update_balance_decide(w, own, u, current_balance, amount_change, fault) ==
    IF Insufficient(current_balance + amount_change)
    THEN [result |-> "False", w |-> IF own THEN conn_close(w) ELSE w]
    ELSE update_balance_persist(w, own, u, current_balance + amount_change, fault)

update_balance_call(p, u, d) ==
    \E fault \in FaultChoices({"connect"}) :
        /\ Enter(p, [NoCall EXCEPT !.op = "update_balance", !.telegram_id = u, !.amount = d,
                                   !.conn_ext = scope[p]], "ub_select", fault)
        /\ UNCHANGED <<users, transactions, seq, now, scope, got, DATABASE_URL, initial, accepted>>

\* lines 70-73: SELECT balance ... FOR UPDATE
update_balance_select(p) ==
    /\ pc[p] = "ub_select"
    /\ LET w == World(p)
           u == call[p].telegram_id
           own == ~call[p].conn_ext
       IN \E fault \in FaultChoices({"execute"}) :
            /\ fault = "execute" => w.c.st = "open"
            /\ faults' = faults + Count(fault)
            /\ IF Rejected(w.c, fault = "execute")
               THEN /\ Apply(p, update_balance_except(w, own), ~own)
                    /\ Return(p, "False", 0)
               ELSE /\ (ForUpdate /\ u \in DOMAIN VisUsers(w)) => ~SelectBlocked(p, u)
                    /\ conn' = [conn EXCEPT ![p].fu =
                                   IF ForUpdate /\ u \in DOMAIN VisUsers(w) THEN @ \cup {u} ELSE @]
                    /\ call' = [call EXCEPT ![p].current_balance =
                                   IF u \in DOMAIN VisUsers(w) THEN VisUsers(w)[u].balance ELSE 0]
                    /\ pc' = [pc EXCEPT ![p] = "ub_write"]
                    /\ UNCHANGED <<users, transactions, seq, ret>>
    /\ UNCHANGED <<now, scope, ncalls, got, DATABASE_URL, initial, accepted>>

\* lines 74-93: the check, the UPDATE, the commit, the return
update_balance_write(p) ==
    /\ pc[p] = "ub_write"
    /\ LET w == World(p)
           u == call[p].telegram_id
           own == ~call[p].conn_ext
           refused == Insufficient(call[p].current_balance + call[p].amount)
       IN \E fault \in FaultChoices({"execute", "commit"}) :
            /\ fault # "none" => ~refused
            /\ fault = "commit" => own
            /\ (~refused /\ fault # "execute" /\ u \in DOMAIN VisUsers(w)) => ~UpdateBlocked(p, u)
            /\ LET r == update_balance_decide(w, own, u, call[p].current_balance,
                                              call[p].amount, fault)
               IN /\ Apply(p, r.w, ~own)
                  /\ Return(p, r.result, 0)
                  /\ accepted' = IF own /\ r.result = "True"
                                 THEN [accepted EXCEPT ![u] = @ + call[p].amount]
                                 ELSE accepted
            /\ faults' = faults + Count(fault)
    /\ UNCHANGED <<now, scope, ncalls, got, DATABASE_URL, initial>>

----------------------------------------------------------------------------
(* create_user_if_not_exists(telegram_id, username, first_name), lines 95-108 *)

\* as insert_on_conflict_do_nothing, had the INSERT replaced a conflicting row
\* (ON CONFLICT (telegram_id) DO UPDATE)
insert_on_conflict_do_update(w, u, row) == (u :> row) @@ w.c.wusers

\* lines 100-104: the pending users rows after INSERT ... ON CONFLICT (telegram_id) DO
\* NOTHING: a row with the key the connection already sees is left as it is
insert_on_conflict_do_nothing(w, u, row) ==
    IF u \in DOMAIN VisUsers(w) THEN w.c.wusers ELSE (u :> row) @@ w.c.wusers

create_user_if_not_exists_call(p, u, names) ==
    \E fault \in FaultChoices({"connect"}), t \in NowChoices :
        /\ ~scope[p]
        /\ Enter(p, [NoCall EXCEPT !.op = "create_user_if_not_exists", !.telegram_id = u,
                                   !.names = names, !.at = t], "cu_insert", fault)
        /\ now' = t
        /\ UNCHANGED <<users, transactions, seq, scope, got, DATABASE_URL, initial, accepted>>

\* lines 100-104: INSERT ... ON CONFLICT (telegram_id) DO NOTHING; a rejected INSERT is
\* rolled back and logged (lines 106-108) and the function returns None
create_user_if_not_exists_insert(p) ==
    /\ pc[p] = "cu_insert"
    /\ LET w == World(p)
           u == call[p].telegram_id
       IN \E fault \in FaultChoices({"execute"}) :
            /\ faults' = faults + Count(fault)
            /\ IF Rejected(w.c, fault = "execute")
               THEN /\ Apply(p, conn_rollback([w EXCEPT !.c = AfterError(@)]).w, FALSE)
                    /\ Return(p, "None", 0)
               ELSE /\ ~InsertBlocked(p, u)
                    /\ conn' = [conn EXCEPT ![p].wusers =
                                   insert_on_conflict_do_nothing(w, u,
                                       UserRow(call[p].names, 0, call[p].at))]
                    /\ pc' = [pc EXCEPT ![p] = "cu_commit"]
                    /\ UNCHANGED <<users, transactions, seq, ret, call>>
    /\ UNCHANGED <<now, scope, ncalls, got, DATABASE_URL, initial, accepted>>

\* line 105: conn.commit(); a failed commit is rolled back and logged (lines 106-108)
create_user_if_not_exists_commit(p) ==
    /\ pc[p] = "cu_commit"
    /\ \E fault \in FaultChoices({"commit"}) :
         LET cm == conn_commit(World(p), fault = "commit")
         IN /\ Apply(p, IF cm.ok THEN cm.w ELSE conn_rollback(cm.w).w, FALSE)
            /\ Return(p, "None", 0)
            /\ faults' = faults + Count(fault)
    /\ UNCHANGED <<now, scope, ncalls, got, DATABASE_URL, initial, accepted>>

----------------------------------------------------------------------------
(* record_transaction with keyword arguments, lines 132-158 *)

\* lines 148, 152, 157: the test 'conn_ext' not in kwargs.  Line 133 has already popped
\* the key, so the test succeeds whether or not the caller passed a connection (ext).
conn_ext_not_in_kwargs(ext) == TRUE

\* lines 151-158: except (rollback, log, return None) and finally (close).  A rollback
\* that raises inside the handler leaves the function by that exception.
record_transaction_except(w, ext) ==
    LET w0 == [w EXCEPT !.c = AfterError(@)]
        rb == IF conn_ext_not_in_kwargs(ext) THEN conn_rollback(w0) ELSE [ok |-> TRUE, w |-> w0]
    IN [result |-> IF rb.ok THEN "None" ELSE "InterfaceError", id |-> 0,
        w |-> IF conn_ext_not_in_kwargs(ext) THEN conn_close(rb.w) ELSE rb.w]

\* line 146: INSERT INTO transactions ... RETURNING id.  The id is drawn from the SERIAL
\* sequence, which is not transactional: the value stays consumed whatever becomes of the
\* statement.  The INSERT is rejected when the connection is unusable, on a fault, and
\* when no users row with the given id is visible (foreign key).  An INSERT that is not
\* rejected leaves the row among the pending writes of the connection.
record_transaction_execute(w, row, fault) ==
    IF Rejected(w.c, fault)
    THEN [ok |-> FALSE, id |-> 0, w |-> w]
    ELSE IF row.user_telegram_id \notin DOMAIN VisUsers(w)
    THEN [ok |-> FALSE, id |-> 0, w |-> [w EXCEPT !.seq = @ + 1]]
    ELSE [ok |-> TRUE, id |-> w.seq + 1,
          w |-> [w EXCEPT !.seq = @ + 1, !.c.wtx = ((w.seq + 1) :> row) @@ @]]

\* as record_transaction_finish, had record_transaction worked on a connection of its own
\* instead of the one it was handed: its commit stores the transaction alone and the
\* connection of the caller stays as it was
record_transaction_finish_OwnConnection(w, ext, transaction_id, fault) ==
    IF fault = "commit"
    THEN [result |-> "None", id |-> 0, w |-> [w EXCEPT !.c.wtx = EmptyFn, !.c.ks = {}]]
    ELSE [result |-> "id", id |-> transaction_id,
          w |-> [w EXCEPT !.transactions = VisTx(w), !.c.wtx = EmptyFn, !.c.ks = {}]]

\* lines 147-158, after an INSERT that was not rejected: commit, return the id; a failed
\* commit goes through the except clause; the finally clause closes the connection
record_transaction_finish(w, ext, transaction_id, fault) ==
    LET cm == IF conn_ext_not_in_kwargs(ext) THEN conn_commit(w, fault = "commit")
              ELSE [ok |-> TRUE, w |-> w]
    IN IF cm.ok
       THEN [result |-> "id", id |-> transaction_id,
             w |-> IF conn_ext_not_in_kwargs(ext) THEN conn_close(cm.w) ELSE cm.w]
       ELSE record_transaction_except(cm.w, ext)

record_transaction_call(p, u, type, amount, status) ==
    \E fault \in FaultChoices({"connect"}), t \in NowChoices :
        /\ seq < MaxTx
        /\ Enter(p, [NoCall EXCEPT !.op = "record_transaction", !.telegram_id = u,
                                   !.type = type, !.amount = amount, !.status = status,
                                   !.conn_ext = scope[p], !.at = t], "rt_insert", fault)
        /\ now' = IF scope[p] \/ get_db_connection(fault) = "conn" THEN t ELSE now
        /\ (~scope[p] /\ get_db_connection(fault) # "conn") => t = now
        /\ UNCHANGED <<users, transactions, seq, scope, got, DATABASE_URL, initial, accepted>>

\* line 146: the INSERT.  A rejected INSERT goes through the except and finally clauses
\* and the call returns.  Otherwise the row is stored and the foreign-key check locks the
\* users row FOR KEY SHARE; while another connection holds that row FOR UPDATE the
\* statement waits there, the id drawn and the row stored.
record_transaction_insert(p) ==
    /\ pc[p] = "rt_insert"
    /\ LET w == World(p)
           c == call[p]
           row == TxRow(c.telegram_id, c.type, c.amount, c.status, None, None, c.at)
       IN \E fault \in FaultChoices({"execute"}) :
            /\ fault # "none" => w.c.st = "open"
            /\ faults' = faults + Count(fault)
            /\ LET x == record_transaction_execute(w, row, fault = "execute")
               IN IF ~x.ok
                  THEN LET r == record_transaction_except(x.w, c.conn_ext)
                       IN /\ Apply(p, r.w, c.conn_ext)
                          /\ Return(p, r.result, r.id)
                  ELSE /\ Apply(p, [x.w EXCEPT !.c.ks = IF FkBlocked(p, c.telegram_id)
                                                        THEN @ ELSE @ \cup {c.telegram_id}],
                                TRUE)
                       /\ call' = [call EXCEPT ![p].transaction_id = x.id]
                       /\ pc' = [pc EXCEPT ![p] = IF FkBlocked(p, c.telegram_id)
                                                  THEN "rt_fk" ELSE "rt_commit"]
                       /\ ret' = ret
    /\ UNCHANGED <<now, scope, ncalls, got, DATABASE_URL, initial, accepted>>

\* line 146, the INSERT that had to wait: the FOR UPDATE lock is gone, the foreign-key
\* check takes its lock and the statement returns
record_transaction_fk(p) ==
    /\ pc[p] = "rt_fk"
    /\ ~FkBlocked(p, call[p].telegram_id)
    /\ conn' = [conn EXCEPT ![p].ks = @ \cup {call[p].telegram_id}]
    /\ pc' = [pc EXCEPT ![p] = "rt_commit"]
    /\ UNCHANGED <<users, transactions, seq, now, scope, call, ret, ncalls, faults, got,
                   DATABASE_URL, initial, accepted>>

\* lines 147-158: fetchone, commit, return of the id, close
record_transaction_commit(p) ==
    /\ pc[p] = "rt_commit"
    /\ \E fault \in FaultChoices({"commit"}) :
         /\ faults' = faults + Count(fault)
         /\ LET r == record_transaction_finish(World(p), call[p].conn_ext,
                                               call[p].transaction_id, fault)
            IN /\ Apply(p, r.w, call[p].conn_ext)
               /\ Return(p, r.result, r.id)
    /\ UNCHANGED <<now, scope, ncalls, got, DATABASE_URL, initial, accepted>>

----------------------------------------------------------------------------
(* update_transaction_status(transaction_id, new_status, keyword arguments), lines 160-184 *)

\* lines 163-171, 174: the columns the UPDATE sets
StatusUpdate(row, new_status, mp_id, admin_notes, at) ==
    [row EXCEPT !.status = new_status,
                !.updated_at = at,
                !.mercado_pago_id = IF mp_id = Absent THEN @ ELSE mp_id,
                !.admin_notes = IF admin_notes = Absent THEN @ ELSE admin_notes]

\* lines 179-184: except psycopg2.Error (log, rollback, return False) and finally (close)
update_transaction_status_except(w, ext) ==
    LET w0 == [w EXCEPT !.c = AfterError(@)]
        rb == IF conn_ext_not_in_kwargs(ext) THEN conn_rollback(w0) ELSE [ok |-> TRUE, w |-> w0]
    IN [result |-> IF rb.ok THEN "False" ELSE "InterfaceError",
        w |-> IF conn_ext_not_in_kwargs(ext) THEN conn_close(rb.w) ELSE rb.w]

\* lines 172-184: UPDATE transactions SET ... WHERE id = %s, commit, return True
update_transaction_status(w, ext, id, new_status, mp_id, admin_notes, at, fault) ==
    IF Rejected(w.c, fault = "execute")
    THEN update_transaction_status_except(w, ext)
    ELSE LET w1 == IF id \in DOMAIN VisTx(w)
                   THEN [w EXCEPT !.c.wtx =
                            (id :> StatusUpdate(VisTx(w)[id], new_status, mp_id, admin_notes, at))
                            @@ @]
                   ELSE w
             cm == IF conn_ext_not_in_kwargs(ext) THEN conn_commit(w1, fault = "commit")
                   ELSE [ok |-> TRUE, w |-> w1]
         IN IF cm.ok
            THEN [result |-> "True",
                  w |-> IF conn_ext_not_in_kwargs(ext) THEN conn_close(cm.w) ELSE cm.w]
            ELSE update_transaction_status_except(cm.w, ext)

update_transaction_status_call(p, id, new_status, mp_id, admin_notes) ==
    \E fault \in FaultChoices({"connect"}), t \in NowChoices :
        /\ Enter(p, [NoCall EXCEPT !.op = "update_transaction_status", !.transaction_id = id,
                                   !.status = new_status, !.mp_id = mp_id,
                                   !.admin_notes = admin_notes, !.conn_ext = scope[p],
                                   !.at = t], "uts_update", fault)
        /\ now' = IF scope[p] \/ get_db_connection(fault) = "conn" THEN t ELSE now
        /\ (~scope[p] /\ get_db_connection(fault) # "conn") => t = now
        /\ UNCHANGED <<users, transactions, seq, scope, got, DATABASE_URL, initial, accepted>>

update_transaction_status_update(p) ==
    /\ pc[p] = "uts_update"
    /\ LET w == World(p)
           c == call[p]
       IN \E fault \in FaultChoices({"execute", "commit"}) :
            /\ fault # "none" => w.c.st = "open"
            /\ (w.c.st = "open" /\ fault # "execute" /\ c.transaction_id \in DOMAIN VisTx(w))
                   => ~TxBlocked(p, c.transaction_id)
            /\ LET r == update_transaction_status(w, c.conn_ext, c.transaction_id, c.status,
                                                  c.mp_id, c.admin_notes, c.at, fault)
               IN /\ Apply(p, r.w, c.conn_ext)
                  /\ Return(p, r.result, 0)
            /\ faults' = faults + Count(fault)
    /\ UNCHANGED <<now, scope, ncalls, got, DATABASE_URL, initial, accepted>>

----------------------------------------------------------------------------
(* admin_set_balance(user_telegram_id, new_balance), lines 110-130 *)

\* lines 127-130: except (rollback, log, return False).  A rollback that raises inside
\* the handler leaves the function by that exception, as does the rollback that the
\* exit of `with get_db_connection() as conn` then attempts.
admin_set_balance_except(w) ==
    LET rb == conn_rollback([w EXCEPT !.c = AfterError(@)])
    IN [result |-> IF rb.ok THEN "False" ELSE "InterfaceError", w |-> rb.w]

\* as admin_set_balance_record, had line 119 passed the change of the balance as the amount
admin_set_balance_record_Delta(w, u, new_balance, at) ==
    TxRow(u, "AJUSTE_MANUAL", new_balance - w.users[u].balance, "CONCLUIDO", None,
          "Saldo definido manualmente.", at)

\* lines 116-123: the keyword arguments of the record_transaction call, as the row that
\* record_transaction builds of them at the time it reads at line 134
admin_set_balance_record(w, u, new_balance, at) ==
    TxRow(u, "AJUSTE_MANUAL", new_balance, "CONCLUIDO", None,
          "Saldo definido manualmente.", at)

\* lines 124-130, after record_transaction has returned r (its result is not looked at):
\* conn.commit() and return True; an exception goes through the except clause
admin_set_balance_return(r, fault) ==
    IF r.result = "InterfaceError"
    THEN admin_set_balance_except(r.w)
    ELSE LET cm == conn_commit(r.w, fault = "outer")
         IN IF cm.ok THEN [result |-> "True", w |-> cm.w]
            ELSE admin_set_balance_except(cm.w)

\* as rowcount, had line 115 not told an UPDATE that found no row from one that found it
rowcount_Ignored(w, u) == 1

\* line 115: cursor.rowcount after UPDATE users ... WHERE telegram_id = %s: the number of
\* rows with that key
rowcount(w, u) == IF u \in DOMAIN VisUsers(w) THEN 1 ELSE 0

admin_set_balance_call(p, u, b) ==
    \E fault \in FaultChoices({"connect"}) :
        /\ ~scope[p]
        /\ seq < MaxTx
        /\ Enter(p, [NoCall EXCEPT !.op = "admin_set_balance", !.telegram_id = u,
                                   !.amount = b], "asb_update", fault)
        /\ UNCHANGED <<users, transactions, seq, now, scope, got, DATABASE_URL, initial, accepted>>

\* lines 113-115, 126: UPDATE users SET balance = %s WHERE telegram_id = %s and the
\* rowcount test; with no row updated the function returns False and the exit of the
\* with block commits
admin_set_balance_update(p) ==
    /\ pc[p] = "asb_update"
    /\ LET w == World(p)
           u == call[p].telegram_id
       IN \E fault \in FaultChoices({"execute", "commit"}) :
            /\ fault = "commit" => u \notin DOMAIN VisUsers(w)
            /\ faults' = faults + Count(fault)
            /\ IF Rejected(w.c, fault = "execute")
               THEN LET r == admin_set_balance_except(w)
                    IN Apply(p, r.w, FALSE) /\ Return(p, r.result, 0)
               ELSE IF rowcount(w, u) > 0
               THEN /\ ~UpdateBlocked(p, u)
                    /\ conn' = [conn EXCEPT ![p].wusers =
                                   IF u \in DOMAIN VisUsers(w)
                                   THEN (u :> [VisUsers(w)[u] EXCEPT !.balance = call[p].amount]) @@ @
                                   ELSE @]
                    /\ pc' = [pc EXCEPT ![p] = "asb_record"]
                    /\ UNCHANGED <<users, transactions, seq, ret, call>>
               ELSE LET cm == conn_commit(w, fault = "commit")
                    IN Apply(p, cm.w, FALSE) /\ Return(p, IF cm.ok THEN "False" ELSE "OperationalError", 0)
    /\ UNCHANGED <<now, scope, ncalls, got, DATABASE_URL, initial, accepted>>

\* lines 116-123 and, in record_transaction, 133-146: the reading of the clock and the
\* INSERT on the connection handed over.  The connection holds the lock of its UPDATE on
\* the users row, so no other connection holds that row FOR UPDATE and the foreign-key
\* check does not wait.  A rejected INSERT goes through the except and finally clauses of
\* record_transaction and then through lines 124-130.
admin_set_balance_insert(p) ==
    /\ pc[p] = "asb_record"
    /\ ~FkBlocked(p, call[p].telegram_id)
    /\ \E fault \in FaultChoices({"execute"}), t \in NowChoices :
         LET u == call[p].telegram_id
             x == record_transaction_execute(World(p),
                      admin_set_balance_record(World(p), u, call[p].amount, t),
                      fault = "execute")
         IN /\ now' = t
            /\ faults' = faults + Count(fault)
            /\ IF ~x.ok
               THEN LET r == admin_set_balance_return(record_transaction_except(x.w, TRUE), fault)
                    IN /\ Apply(p, r.w, FALSE)
                       /\ Return(p, r.result, 0)
               ELSE /\ Apply(p, [x.w EXCEPT !.c.ks = @ \cup {u}], TRUE)
                    /\ call' = [call EXCEPT ![p].transaction_id = x.id]
                    /\ pc' = [pc EXCEPT ![p] = "asb_commit"]
                    /\ ret' = ret
    /\ UNCHANGED <<scope, ncalls, got, DATABASE_URL, initial, accepted>>

\* in record_transaction lines 147-158 (commit, return of the id, close), then lines 124-130
admin_set_balance_finish(p) ==
    /\ pc[p] = "asb_commit"
    /\ \E fault \in FaultChoices({"commit", "outer"}) :
         LET r == admin_set_balance_return(
                      record_transaction_finish(World(p), TRUE, call[p].transaction_id, fault),
                      fault)
         IN /\ Apply(p, r.w, FALSE)
            /\ Return(p, r.result, 0)
            /\ faults' = faults + Count(fault)
    /\ UNCHANGED <<now, scope, ncalls, got, DATABASE_URL, initial, accepted>>

----------------------------------------------------------------------------
(* The read accessors: get_balance (lines 56-65), get_transaction_details (lines 186-195), *)
(* get_pending_withdrawals (lines 197-206)                                                *)

\* lines 60-62: SELECT balance FROM users WHERE telegram_id = %s; Decimal("0.00") without a row
get_balance(committed_users, telegram_id) ==
    IF telegram_id \in DOMAIN committed_users THEN committed_users[telegram_id].balance ELSE 0

\* lines 191-192: SELECT * FROM transactions WHERE id = %s; fetchone() is the row or None
get_transaction_details(committed_tx, transaction_id) ==
    IF transaction_id \in DOMAIN committed_tx
    THEN (transaction_id :> committed_tx[transaction_id])
    ELSE EmptyFn

\* as get_pending_withdrawals, had line 202 selected on the status alone
get_pending_withdrawals_AnyType(committed_tx) ==
    [id \in {i \in DOMAIN committed_tx : committed_tx[i].status = STATUS_EM_ANALISE}
        |-> committed_tx[id]]

\* lines 202-203: SELECT * FROM transactions WHERE type = 'WITHDRAWAL' AND status = %s with
\* config.STATUS_EM_ANALISE; fetchall() is the list of the rows, here keyed by their ids
get_pending_withdrawals(committed_tx) ==
    [id \in {i \in DOMAIN committed_tx : /\ committed_tx[i].type = "WITHDRAWAL"
                                         /\ committed_tx[i].status = STATUS_EM_ANALISE}
        |-> committed_tx[id]]

\* A read accessor runs `with get_db_connection() as conn` around one SELECT on a connection
\* of its own, which sees the committed rows.  An exception of get_db_connection leaves
\* the function; a rejected SELECT is caught and the failure value returned; a commit
\* failing at the exit of the with block leaves by its exception.  success and failure are
\* the returned value (val: its kind, data: its content) in the two cases.
read_accessor(p, op, success, failure) ==
    /\ pc[p] = "idle"
    /\ ncalls < MaxCalls
    /\ ncalls' = ncalls + 1
    /\ \E fault \in FaultChoices({"connect", "execute", "commit"}) :
         /\ fault # "none" => DATABASE_URL # Absent
         /\ faults' = faults + Count(fault)
         /\ LET r == CASE get_db_connection(fault) # "conn" ->
                            [val |-> get_db_connection(fault), data |-> got[p]]
                       [] fault = "commit" -> [val |-> "OperationalError", data |-> got[p]]
                       [] fault = "execute" -> failure
                       [] OTHER -> success
            IN /\ ret' = [ret EXCEPT ![p] = [op |-> op, val |-> r.val, id |-> 0]]
               /\ got' = [got EXCEPT ![p] = r.data]
    /\ UNCHANGED <<users, transactions, seq, now, conn, scope, pc, call, DATABASE_URL, initial, accepted>>

\* lines 62 and 65: the balance, or Decimal("0.00") after an error
get_balance_call(p, u) ==
    read_accessor(p, "get_balance",
                  [val |-> "Decimal", data |-> [NoGot EXCEPT !.balance = get_balance(users, u)]],
                  [val |-> "Decimal", data |-> NoGot])

\* lines 192 and 195: the row or None, or None after an error
get_transaction_details_call(p, id) ==
    read_accessor(p, "get_transaction_details",
                  [val |-> IF id \in DOMAIN transactions THEN "row" ELSE "None",
                   data |-> [NoGot EXCEPT !.rows = get_transaction_details(transactions, id)]],
                  [val |-> "None", data |-> NoGot])

\* lines 203 and 206: the list of rows, or [] after an error
get_pending_withdrawals_call(p) ==
    read_accessor(p, "get_pending_withdrawals",
                  [val |-> "list",
                   data |-> [NoGot EXCEPT !.rows = get_pending_withdrawals(transactions)]],
                  [val |-> "list", data |-> NoGot])

----------------------------------------------------------------------------
(* A caller that holds a connection and passes it as conn_ext *)

caller_open(p) ==
    /\ pc[p] = "idle" /\ ~scope[p] /\ ncalls < MaxCalls
    /\ DATABASE_URL # Absent        \* the caller takes its connection from get_db_connection()
    /\ scope' = [scope EXCEPT ![p] = TRUE]
    /\ conn' = [conn EXCEPT ![p] = OpenConn]
    /\ UNCHANGED <<users, transactions, seq, now, pc, call, ret, ncalls, faults, got, DATABASE_URL, initial, accepted>>

\* the caller ends its scope with conn.commit() and conn.close()
caller_commit(p) ==
    /\ pc[p] = "idle" /\ scope[p]
    /\ Apply(p, conn_commit(World(p), FALSE).w, FALSE)
    /\ scope' = [scope EXCEPT ![p] = FALSE]
    /\ UNCHANGED <<now, pc, call, ret, ncalls, faults, got, DATABASE_URL, initial, accepted>>

\* the caller ends its scope with conn.rollback() and conn.close()
caller_rollback(p) ==
    /\ pc[p] = "idle" /\ scope[p]
    /\ Apply(p, conn_rollback(World(p)).w, FALSE)
    /\ scope' = [scope EXCEPT ![p] = FALSE]
    /\ UNCHANGED <<now, pc, call, ret, ncalls, faults, got, DATABASE_URL, initial, accepted>>

----------------------------------------------------------------------------
(* Specifications *)

\* type and first status of the transactions that callers record
RecordKinds == {<<"DEPOSIT", STATUS_DEPOSITO_PENDENTE>>,
                <<"WITHDRAWAL", STATUS_DEPOSITO_PENDENTE>>,
                <<"WITHDRAWAL", STATUS_EM_ANALISE>>}
UpdateStatuses == PathStatuses
MpIds == {Absent, "mp-1"}
Notes == {Absent, "note"}

\* The tables after init_db and first use: user 1 exists with some balance that
\* update_balance can have produced, user 2 does not exist, no transaction yet.
Init ==
    /\ \E b \in Amounts : users = (1 :> UserRow(<<"ana", "Ana">>, b, 0))
    /\ transactions = EmptyFn
    /\ seq = 0
    /\ now = 0
    /\ conn = [p \in Procs |-> NoConn]
    /\ scope = [p \in Procs |-> FALSE]
    /\ pc = [p \in Procs |-> "idle"]
    /\ call = [p \in Procs |-> NoCall]
    /\ ret = [p \in Procs |-> NoRet]
    /\ ncalls = 0
    /\ faults = 0
    /\ got = [p \in Procs |-> NoGot]
    /\ DATABASE_URL \in DatabaseUrls
    /\ initial = [u \in UserIds |-> IF u \in DOMAIN users THEN users[u].balance ELSE 0]
    /\ accepted = [u \in UserIds |-> 0]

UpdateBalance ==
    \E p \in Procs :
        \/ \E u \in UserIds, d \in Deltas : update_balance_call(p, u, d)
        \/ update_balance_select(p)
        \/ update_balance_write(p)

CreateUser ==
    \E p \in Procs :
        \/ \E u \in UserIds, names \in NamePairs : create_user_if_not_exists_call(p, u, names)
        \/ create_user_if_not_exists_insert(p)
        \/ create_user_if_not_exists_commit(p)

AdminSetBalance ==
    \E p \in Procs :
        \/ \E u \in UserIds, b \in (-1)..MaxAmount : admin_set_balance_call(p, u, b)
        \/ admin_set_balance_update(p)
        \/ admin_set_balance_insert(p)
        \/ admin_set_balance_finish(p)

RecordTransaction ==
    \E p \in Procs :
        \/ \E u \in UserIds, kind \in RecordKinds, a \in 1..MaxAmount :
              record_transaction_call(p, u, kind[1], a, kind[2])
        \/ record_transaction_insert(p)
        \/ record_transaction_fk(p)
        \/ record_transaction_commit(p)

UpdateTransactionStatus ==
    \E p \in Procs :
        \/ \E id \in TxIds, st \in UpdateStatuses, mp \in MpIds, n \in Notes :
              update_transaction_status_call(p, id, st, mp, n)
        \/ update_transaction_status_update(p)

CallerScope ==
    \E p \in Procs : caller_open(p) \/ caller_commit(p) \/ caller_rollback(p)

ReadAccessors ==
    \E p \in Procs :
        \/ \E u \in UserIds : get_balance_call(p, u)
        \/ \E id \in TxIds : get_transaction_details_call(p, id)
        \/ get_pending_withdrawals_call(p)

Next ==
    \/ UpdateBalance
    \/ CreateUser
    \/ AdminSetBalance
    \/ RecordTransaction
    \/ UpdateTransactionStatus
    \/ CallerScope
    \/ ReadAccessors

Spec == Init /\ [][Next]_vars

\* concurrent own-scope update_balance calls only
AdjustNext ==
    \E p \in Procs :
        \/ \E u \in UserIds, d \in Deltas : ~scope[p] /\ update_balance_call(p, u, d)
        \/ update_balance_select(p)
        \/ update_balance_write(p)

SpecAdjust == Init /\ [][AdjustNext]_vars

\* admin corrections next to ordinary balance changes
AdminNext == AdminSetBalance \/ AdjustNext

SpecAdmin == Init /\ [][AdminNext]_vars

\* update_balance on its own connection and on the connection of a caller
ScopeNext == UpdateBalance \/ CallerScope

SpecScope == Init /\ [][ScopeNext]_vars

\* the operations that write balances
UsersNext == CreateUser \/ AdjustNext \/ AdminSetBalance

SpecUsers == Init /\ [][UsersNext]_vars

\* users created on first interaction next to ordinary balance changes
CreateNext == CreateUser \/ AdjustNext

SpecCreate == Init /\ [][CreateNext]_vars

\* The admin queue: transactions are recorded, their statuses updated and the pending
\* withdrawals listed.  The table starts with the transactions that earlier
\* record_transaction calls have stored, none to MaxTx of them.
InitQueue ==
    /\ users = (1 :> UserRow(<<"ana", "Ana">>, 0, 0))
    /\ \E k \in 0..MaxTx : \E kinds \in [1..k -> RecordKinds] :
            /\ transactions = [id \in 1..k |->
                                  TxRow(1, kinds[id][1], 1, kinds[id][2], None, None, 0)]
            /\ seq = k
    /\ now = 0
    /\ conn = [p \in Procs |-> NoConn]
    /\ scope = [p \in Procs |-> FALSE]
    /\ pc = [p \in Procs |-> "idle"]
    /\ call = [p \in Procs |-> NoCall]
    /\ ret = [p \in Procs |-> NoRet]
    /\ ncalls = 0
    /\ faults = 0
    /\ got = [p \in Procs |-> NoGot]
    /\ DATABASE_URL \in DatabaseUrls
    /\ initial = [u \in UserIds |-> IF u \in DOMAIN users THEN users[u].balance ELSE 0]
    /\ accepted = [u \in UserIds |-> 0]

\* the calls of the queue, each on a connection of its own: transactions of existing
\* users, update_transaction_status without the optional keyword arguments, all within
\* one tick of the clock (the query of get_pending_withdrawals reads no timestamp).  No
\* connection holds a users row FOR UPDATE here, so no INSERT waits in its foreign-key
\* check.
QueueNext ==
    /\ now' = now
    /\ \E p \in Procs :
        \/ \E u \in DOMAIN users, kind \in RecordKinds :
              record_transaction_call(p, u, kind[1], 1, kind[2])
        \/ record_transaction_insert(p)
        \/ record_transaction_commit(p)
        \/ \E id \in TxIds, st \in UpdateStatuses :
              update_transaction_status_call(p, id, st, Absent, Absent)
        \/ update_transaction_status_update(p)
        \/ get_pending_withdrawals_call(p)

SpecQueue == InitQueue /\ [][QueueNext]_vars

\* Scheduling: a unit of execution that can take the next step of its running call
\* without a store failure eventually takes it (the interpreter runs every thread, the
\* server answers every statement it can execute).  Nothing obliges a store failure to
\* happen, a unit to start a call, or a caller to end the scope of the connection it holds.
Fairness(p) ==
    /\ WF_vars(update_balance_select(p) /\ faults' = faults)
    /\ WF_vars(update_balance_write(p) /\ faults' = faults)

\* update_balance next to callers that hold a connection, under fair scheduling
SpecWait == Init /\ [][ScopeNext]_vars /\ \A p \in Procs : Fairness(p)

\* concurrent own-scope update_balance calls under fair scheduling
SpecAdjustFair == Init /\ [][AdjustNext]_vars /\ \A p \in Procs : Fairness(p)

----------------------------------------------------------------------------
(* Properties *)

\* the unit p takes a step of its running call
Steps(p) == pc[p] # "idle" /\ pc'[p] # pc[p]

\* the balance of user u as the connection of p sees it (0 without a row)
StoreBalance(p, u) ==
    IF u \in DOMAIN VisUsers(World(p)) THEN VisUsers(World(p))[u].balance ELSE 0

\* the transactions committed by the current step
NewTx == DOMAIN transactions' \ DOMAIN transactions

\* a committed transaction that stands for money moved: its status is a settled one
\* (config.STATUS_CONCLUIDO, config.STATUS_DEPOSITO_PAGO, or the literal of line 120)
BalanceAffecting(row) == row.status \in {STATUS_CONCLUIDO, STATUS_DEPOSITO_PAGO, "CONCLUIDO"}

\* withdrawals and fees reduce the balance, deposits and adjustments raise it
Signed(row) == IF row.type \in {"WITHDRAWAL", "FEE"} THEN -row.amount ELSE row.amount

RECURSIVE SumAmounts(_, _)
SumAmounts(ids, u) ==
    IF ids = {} THEN 0
    ELSE LET id == CHOOSE i \in ids : TRUE
             row == transactions[id]
         IN (IF row.user_telegram_id = u /\ BalanceAffecting(row) THEN Signed(row) ELSE 0)
            + SumAmounts(ids \ {id}, u)

\* C1: after any committed create_user_if_not_exists, update_balance and
\* admin_set_balance operations every stored balance is >= 0.
C1_BalanceNonNegative == \A u \in DOMAIN users : users[u].balance >= 0

\* C2: with only concurrent own-scope update_balance calls running, the stored balance
\* of every existing user is its initial balance plus the sum of the deltas of the calls
\* that returned True; refused and failed calls contribute nothing.
C2_NoLostUpdate == \A u \in DOMAIN users : users[u].balance = initial[u] + accepted[u]

\* C2 witness: two update_balance calls on the same existing user overlap, one holding
\* the row lock after its SELECT ... FOR UPDATE, the other waiting for it.
C2_Witness ==
    \E p, q \in Procs :
        /\ pc[p] = "ub_write" /\ pc[q] = "ub_select"
        /\ call[p].telegram_id = call[q].telegram_id
        /\ call[p].telegram_id \in DOMAIN users
        /\ SelectBlocked(q, call[q].telegram_id)

\* C3: a step of update_balance(id, -X), taken while X exceeds the balance the store
\* holds for the user on the call's connection, never returns anything but False, changes
\* no committed balance and, on a caller-supplied connection, adds or changes no pending
\* balance (a store fault that strikes the call aborts the caller's transaction, which
\* only discards pending writes).
C3_OverdraftRefused ==
    [][\A p \in Procs :
         (Steps(p) /\ call[p].op = "update_balance"
                   /\ -call[p].amount > StoreBalance(p, call[p].telegram_id))
         => /\ pc'[p] = "idle" => ret'[p].val = "False"
            /\ users' = users
            /\ call[p].conn_ext
               => \A u \in DOMAIN conn'[p].wusers :
                     u \in DOMAIN conn[p].wusers /\ conn'[p].wusers[u] = conn[p].wusers[u]]_vars

\* C3 witness: without any store fault, a call on a caller-supplied connection and a call
\* on an own connection have both returned False.
C3_Witness ==
    /\ faults = 0
    /\ \E p, q \in Procs :
         /\ scope[p] /\ ~scope[q]
         /\ ret[p] = [op |-> "update_balance", val |-> "False", id |-> 0]
         /\ ret[q] = [op |-> "update_balance", val |-> "False", id |-> 0]

\* C4: every step that changes a committed balance commits, in the same step, exactly one
\* new transaction of that user whose amount matches the change (the delta or the new
\* balance).
C4_BalanceChangeRecorded ==
    [][\A u \in DOMAIN users :
         users'[u].balance # users[u].balance
         => /\ Cardinality(NewTx) = 1
            /\ \A id \in NewTx :
                 /\ transactions'[id].user_telegram_id = u
                 /\ transactions'[id].amount \in
                        {users'[u].balance - users[u].balance, users'[u].balance}]_vars

\* C5: reconciliation: in every committed state the balance of each user is its initial
\* balance plus the sum of the signed amounts of the user's committed balance-affecting
\* transactions.
C5_Reconciled ==
    \A u \in DOMAIN users :
        users[u].balance = initial[u] + SumAmounts(DOMAIN transactions, u)

\* C6: a step of update_balance, record_transaction or update_transaction_status on a
\* caller-supplied connection, no store fault striking it, commits nothing, closes
\* nothing and discards none of the connection's pending writes.
C6_CallerScopeKept ==
    [][\A p \in Procs :
         (Steps(p) /\ call[p].conn_ext /\ faults' = faults)
         => /\ users' = users
            /\ transactions' = transactions
            /\ conn[p].st # "closed" => conn'[p].st # "closed"
            /\ DOMAIN conn[p].wusers \subseteq DOMAIN conn'[p].wusers
            /\ DOMAIN conn[p].wtx \subseteq DOMAIN conn'[p].wtx]_vars

\* C7: the step in which admin_set_balance(u, b) commits, no store fault
\* striking, leaves the committed balance of u equal to b and commits exactly one new
\* transaction, of user u, type AJUSTE_MANUAL and amount b; no step of the call changes
\* another user's row, another column of u's row or an existing transaction.
C7_AdminSetBalanceEffect ==
    [][\A p \in Procs :
         (Steps(p) /\ call[p].op = "admin_set_balance")
         => LET u == call[p].telegram_id
                b == call[p].amount
            IN /\ DOMAIN users' = DOMAIN users
               /\ \A v \in DOMAIN users \ {u} : users'[v] = users[v]
               /\ u \in DOMAIN users => [users'[u] EXCEPT !.balance = 0] = [users[u] EXCEPT !.balance = 0]
               /\ \A id \in DOMAIN transactions :
                    id \in DOMAIN transactions' /\ transactions'[id] = transactions[id]
               /\ (pc[p] = "asb_commit" /\ faults' = faults)
                  => /\ users'[u].balance = b
                     /\ Cardinality(NewTx) = 1
                     /\ \A id \in NewTx :
                          /\ transactions'[id].user_telegram_id = u
                          /\ transactions'[id].type = "AJUSTE_MANUAL"
                          /\ transactions'[id].amount = b]_vars

\* C7 witness: without any store fault an admin_set_balance call has finished, a second
\* AJUSTE_MANUAL transaction stands next to an earlier one, and the balance of user 1 is
\* the amount of the later one and differs from the initial balance.
C7_Witness ==
    /\ faults = 0
    /\ \E p \in Procs : ret[p].op = "admin_set_balance"
    /\ {1, 2} \subseteq DOMAIN transactions
    /\ transactions[2].type = "AJUSTE_MANUAL"
    /\ users[1].balance = transactions[2].amount
    /\ users[1].balance # initial[1]

\* C8: every step of admin_set_balance(u, b) either leaves the committed tables as they
\* were or commits the balance b together with exactly one AJUSTE_MANUAL transaction of
\* user u and amount b: no committed state holds one write without the other.
C8_AdminAllOrNothing ==
    [][\A p \in Procs :
         (Steps(p) /\ call[p].op = "admin_set_balance")
         => LET u == call[p].telegram_id
                b == call[p].amount
            IN \/ users' = users /\ transactions' = transactions
               \/ /\ users'[u].balance = b
                  /\ Cardinality(NewTx) = 1
                  /\ \A id \in NewTx :
                       /\ transactions'[id].user_telegram_id = u
                       /\ transactions'[id].type = "AJUSTE_MANUAL"
                       /\ transactions'[id].amount = b]_vars

\* C8 witness: a store fault struck an admin_set_balance call after its UPDATE (the call
\* ended with the InterfaceError of its closed connection) and neither the balance nor a
\* transaction is retained.
C8_Witness ==
    /\ faults = 1
    /\ transactions = EmptyFn
    /\ users[1].balance = initial[1]
    /\ \E p \in Procs : ret[p] = [op |-> "admin_set_balance", val |-> "InterfaceError", id |-> 0]

\* C9: admin_set_balance returns True when, no store fault striking, its step that
\* commits the balance and the transaction ends the call.
C9_AdminReturnsTrue ==
    [][\A p \in Procs :
         (pc[p] = "asb_commit" /\ pc'[p] = "idle" /\ faults' = faults)
         => ret'[p].val = "True"]_vars

\* the edges of the status state machine: the withdrawal path and the deposit path
AllowedEdges ==
    {<<STATUS_DEPOSITO_PENDENTE, STATUS_EM_ANALISE>>,
     <<STATUS_EM_ANALISE, STATUS_CONCLUIDO>>,
     <<STATUS_EM_ANALISE, STATUS_RECUSADO>>,
     <<STATUS_DEPOSITO_PENDENTE, STATUS_DEPOSITO_PAGO>>,
     <<STATUS_DEPOSITO_PENDENTE, STATUS_FALHA_PAGAMENTO>>}

\* C10: the committed status of a transaction changes only along an edge of the status
\* state machine (of either path), so that it never leaves a terminal status and never
\* returns to a status it held before.
C10_StatusAlongEdges ==
    [][\A id \in DOMAIN transactions :
         transactions'[id].status # transactions[id].status
         => <<transactions[id].status, transactions'[id].status>> \in AllowedEdges]_vars

\* the names of the exceptions by which a call can leave its function
Exceptions == {"AttributeError", "OperationalError", "InterfaceError"}

\* C11: whatever store failure strikes a call (connect, rejected statement, failed
\* commit), the call returns a value: no call of any ledger operation is left by an
\* exception.
C11_NoExceptionEscapes == \A p \in Procs : ret[p].val \notin Exceptions

\* C12: when update_transaction_status(id, s) on a recorded transaction returns True,
\* what get_transaction_details(id) returns from then on is the transaction with status s
\* and with updated_at strictly greater than created_at.
C12_RoundTrip ==
    [][\A p \in Procs :
         (/\ pc[p] = "uts_update" /\ pc'[p] = "idle" /\ ret'[p].val = "True"
          /\ call[p].transaction_id \in DOMAIN transactions)
         => LET id == call[p].transaction_id
                row == get_transaction_details(transactions', id)[id]
            IN /\ row.status = call[p].status
               /\ row.updated_at > row.created_at]_vars

\* C13: no step changes the user id, type, amount or created_at of a committed
\* transaction or deletes it; a step of update_transaction_status(id, ...) changes of the
\* committed tables only the transaction id, and of it only status and updated_at, plus
\* the processor reference and the admin note when and only when they are passed; every
\* other transaction and every user row stay as they were.
C13_StatusUpdateFrame ==
    [][/\ \A id \in DOMAIN transactions :
            /\ id \in DOMAIN transactions'
            /\ transactions'[id].user_telegram_id = transactions[id].user_telegram_id
            /\ transactions'[id].type = transactions[id].type
            /\ transactions'[id].amount = transactions[id].amount
            /\ transactions'[id].created_at = transactions[id].created_at
       /\ \A p \in Procs :
            (Steps(p) /\ call[p].op = "update_transaction_status")
            => LET id == call[p].transaction_id
               IN /\ users' = users
                  /\ DOMAIN transactions' = DOMAIN transactions
                  /\ \A j \in DOMAIN transactions \ {id} : transactions'[j] = transactions[j]
                  /\ (id \in DOMAIN transactions /\ transactions'[id] # transactions[id])
                     => transactions'[id] = StatusUpdate(transactions[id], call[p].status,
                                               call[p].mp_id, call[p].admin_notes, call[p].at)]_vars

\* C14: a step of create_user_if_not_exists(u, ...) leaves every existing users row,
\* that of u included, exactly as it was (balance, names, created_at), adds no row but
\* that of u, and adds it with balance 0 and the names and time of the call; a call whose
\* last step no store fault strikes leaves a row of u behind.  Rows are keyed by telegram_id,
\* so a second row of u would show as a changed one.
C14_CreateIfAbsent ==
    [][\A p \in Procs :
         (Steps(p) /\ call[p].op = "create_user_if_not_exists")
         => LET u == call[p].telegram_id
            IN /\ \A v \in DOMAIN users : v \in DOMAIN users' /\ users'[v] = users[v]
               /\ DOMAIN users' \subseteq DOMAIN users \cup {u}
               /\ u \in DOMAIN users' \ DOMAIN users
                  => users'[u] = UserRow(call[p].names, 0, call[p].at)
               /\ (pc'[p] = "idle" /\ faults' = faults) => u \in DOMAIN users']_vars

\* C14 witness: two calls for the same absent id run concurrently with different names:
\* one has inserted its row and not yet committed, the other waits with its INSERT; the
\* user that existed before has a balance that is not 0.
C14_Witness ==
    /\ users[1].balance = 1
    /\ \E p, q \in Procs :
         /\ pc[p] = "cu_commit" /\ pc[q] = "cu_insert"
         /\ call[p].telegram_id = call[q].telegram_id
         /\ call[p].names # call[q].names
         /\ call[p].telegram_id \in DOMAIN conn[p].wusers
         /\ InsertBlocked(q, call[q].telegram_id)

\* C15: when update_balance(u, d) on a connection of its own returns True while no other
\* unit has a call in progress or a connection held, get_balance(u) after the call is
\* get_balance(u) before the call plus d, also for a u without a users row (whose balance
\* reads as 0).
C15_TrueMeansPersisted ==
    [][\A p \in Procs :
         (/\ pc[p] = "ub_write" /\ pc'[p] = "idle"
          /\ ~call[p].conn_ext
          /\ ret'[p].val = "True"
          /\ \A q \in Procs \ {p} : pc[q] = "idle" /\ ~scope[q])
         => get_balance(users', call[p].telegram_id)
                = get_balance(users, call[p].telegram_id) + call[p].amount]_vars

\* C16: a step of update_transaction_status(id, ...) that ends the call while the
\* connection sees no transaction with that id returns False and changes no transaction.
C16_MissingIdRefused ==
    [][\A p \in Procs :
         (/\ pc[p] = "uts_update" /\ pc'[p] = "idle"
          /\ call[p].transaction_id \notin DOMAIN VisTx(World(p)))
         => /\ ret'[p].val = "False"
            /\ transactions' = transactions]_vars

\* C17: no step of admin_set_balance(u, b) for a u without a users row creates a users
\* row or commits a transaction, and the step that ends the call, no store fault striking
\* it, returns False.
C17_AdminMissingUser ==
    [][\A p \in Procs :
         (/\ Steps(p) /\ call[p].op = "admin_set_balance"
          /\ call[p].telegram_id \notin DOMAIN users)
         => /\ users' = users
            /\ transactions' = transactions
            /\ (pc'[p] = "idle" /\ faults' = faults) => ret'[p].val = "False"]_vars

\* C17 witness: without any store fault an admin_set_balance call for user 2, who has no
\* row, has returned False (in the absence of faults no other call of it returns False);
\* there is still no row of user 2 and no transaction.
C17_Witness ==
    /\ faults = 0
    /\ \E p \in Procs : ret[p] = [op |-> "admin_set_balance", val |-> "False", id |-> 0]
    /\ DOMAIN users = {1}
    /\ transactions = EmptyFn

\* C18: an update_balance call that has reached its SELECT ... FOR UPDATE eventually
\* returns, whether or not the holder of the row lock ever ends its scope.
C18_WaitIsBounded ==
    \A p \in Procs : (pc[p] = "ub_select") ~> (pc[p] = "idle")

\* C19: with only own-scope update_balance calls running, a unit that is not inside a
\* call holds no row lock and no pending write, whichever way its call ended, and under
\* fair scheduling every call that has started eventually returns.
C19_LockReleased ==
    /\ [](\A p \in Procs : pc[p] = "idle" => conn[p].fu = {} /\ DOMAIN conn[p].wusers = {})
    /\ \A p \in Procs : (pc[p] # "idle") ~> (pc[p] = "idle")

\* C19 witness: both units ran an own-scope update_balance on user 1 and both calls have
\* returned without a store fault, one refused for insufficient balance and one accepted,
\* and no connection is left.
C19_Witness ==
    /\ faults = 0
    /\ \E p, q \in Procs :
         /\ ret[p] = [op |-> "update_balance", val |-> "False", id |-> 0]
         /\ ret[q] = [op |-> "update_balance", val |-> "True", id |-> 0]
    /\ accepted[1] = -1
    /\ ncalls = 2
    /\ \A p \in Procs : pc[p] = "idle" /\ conn[p] = NoConn

\* C20: a get_pending_withdrawals call that connects and that no store fault strikes
\* returns exactly the committed transactions of type WITHDRAWAL whose status is config.STATUS_EM_ANALISE at
\* that moment, each as it is stored, whatever record_transaction and
\* update_transaction_status calls came before.
C20_PendingWithdrawals ==
    [][\A p \in Procs :
         (get_pending_withdrawals_call(p) /\ faults' = faults /\ ret'[p].val = "list")
         => /\ DOMAIN got'[p].rows =
                  {id \in DOMAIN transactions : /\ transactions[id].type = "WITHDRAWAL"
                                                /\ transactions[id].status = "EM ANÁLISE"}
            /\ \A id \in DOMAIN got'[p].rows : got'[p].rows[id] = transactions[id]]_vars

\* C20 witness: a get_pending_withdrawals call has returned a list with one withdrawal
\* while the table also holds a withdrawal that an update_transaction_status call has
\* moved out of EM ANÁLISE and that the list leaves out.
C20_Witness ==
    \E p \in Procs :
        /\ ret[p] = [op |-> "get_pending_withdrawals", val |-> "list", id |-> 0]
        /\ DOMAIN got[p].rows = {2}
        /\ DOMAIN transactions = {1, 2}
        /\ transactions[1].type = "WITHDRAWAL"
        /\ transactions[1].status = STATUS_CONCLUIDO
        /\ transactions[2].type = "WITHDRAWAL"

====
